---- MODULE Spec2Model ----
(***************************************************************************)
(* Model of MonteCarloGBMSimulator (montecarlo.py): calibration in the     *)
(* constructor, simulate(), plot() and summary().                          *)
(*                                                                         *)
(* Floats are fixed-point integers scaled by Scale (1.0 is Scale), with    *)
(* one extra value NaN that every arithmetic operation propagates.         *)
(* A dataset (pandas DataFrame) is a function from column names to         *)
(* sequences of floats.  A numpy array of shape (rows, cols) is the record *)
(* [rows, cols, data] with data a sequence of `rows` sequences of `cols`   *)
(* floats; Python's None is the record None.                               *)
(***************************************************************************)
EXTENDS Integers, Sequences, FiniteSets

VARIABLES
    df,        \* the caller's dataset object, passed by reference to the constructor
    df0,       \* the dataset as the caller built it (never assigned after Init)
    args,      \* the constructor's remaining arguments
    self,      \* the simulator instance, NoInstance until constructed
    call,      \* the most recent call made by the caller
    raised,    \* the exception the most recent call raised, NoError if it returned
    returned,  \* what the most recent simulate() that returned gave back
    printed,   \* what the most recent call wrote to standard output
    trail      \* the seeds the random source had at the last simulate() calls,
               \* oldest first, at most two

vars == <<df, df0, args, self, call, raised, returned, printed, trail>>

-----------------------------------------------------------------------------
(* Bounds of the model *)

MaxLen == 2        \* longest column of the input dataset
MaxDays == 2       \* largest n_days
MaxSims == 2       \* largest n_simulations

-----------------------------------------------------------------------------
(* Floats *)

Scale == 100
NaN == 0 - 1000000

None == [none |-> TRUE]
NoInstance == [exists |-> FALSE]
NoError == "none"

FAdd(a, b) == IF a = NaN \/ b = NaN THEN NaN ELSE a + b
FSub(a, b) == IF a = NaN \/ b = NaN THEN NaN ELSE a - b
FMul(a, b) == IF a = NaN \/ b = NaN THEN NaN ELSE (a * b) \div Scale
FDiv(a, b) == IF a = NaN \/ b = NaN \/ b = 0 THEN NaN ELSE (a * Scale) \div b

RECURSIVE SqrtSearch(_, _, _)
SqrtSearch(n, lo, hi) ==
    IF lo >= hi THEN lo
    ELSE LET mid == (lo + hi + 1) \div 2
         IN  IF mid * mid <= n THEN SqrtSearch(n, mid, hi)
             ELSE SqrtSearch(n, lo, mid - 1)

\* np.sqrt
FSqrt(a) == IF a = NaN \/ a < 0 THEN NaN ELSE SqrtSearch(a * Scale, 0, a * Scale)

ExpTerms == 8

RECURSIVE ExpSeries(_, _, _)
ExpSeries(x, k, term) ==
    IF k > ExpTerms THEN 0
    ELSE term + ExpSeries(x, k + 1, (term * x) \div (k * Scale))

\* np.exp
FExp(x) == IF x = NaN THEN NaN ELSE ExpSeries(x, 1, Scale)

RECURSIVE SumSeq(_)
SumSeq(s) == IF s = <<>> THEN 0 ELSE FAdd(Head(s), SumSeq(Tail(s)))

HasNaN(s) == \E i \in 1..Len(s) : s[i] = NaN

-----------------------------------------------------------------------------
(* pandas Series operations used by the constructor *)

\* Series.pct_change(): the first entry has no predecessor
pct_change(s) ==
    [i \in 1..Len(s) |-> IF i = 1 THEN NaN
                         ELSE FSub(FDiv(s[i], s[i - 1]), Scale)]

\* Series.dropna()
RECURSIVE dropna(_)
dropna(s) ==
    IF s = <<>> THEN <<>>
    ELSE IF Head(s) = NaN THEN dropna(Tail(s))
         ELSE <<Head(s)>> \o dropna(Tail(s))

\* Series.mean(): NaN for an empty series
mean(s) == IF s = <<>> THEN NaN ELSE SumSeq(s) \div Len(s)

SquaredDeviations(s, m) == [i \in 1..Len(s) |-> FMul(FSub(s[i], m), FSub(s[i], m))]

\* Series.std(): sample standard deviation (ddof = 1), NaN below two values
std(s) ==
    IF Len(s) < 2 THEN NaN
    ELSE FSqrt(SumSeq(SquaredDeviations(s, mean(s))) \div (Len(s) - 1))

-----------------------------------------------------------------------------
(* Inputs *)

RetVals == {NaN, 0 - 20, 30}
Prices == {100, 120}

SeqsUpTo(S, n) == UNION {[1..k -> S] : k \in 0..n}

Datasets ==
    {[c \in {"pnl_pct"} |-> s] : s \in SeqsUpTo(RetVals, MaxLen)}
    \cup {[c \in {"close"} |-> s] : s \in SeqsUpTo(Prices, MaxLen)}
    \cup {[c \in {"pnl_pct", "close"} |-> IF c = "close" THEN <<100, 120>> ELSE <<30>>]}
    \cup {[c \in {"open"} |-> <<100>>]}

Capitals == {0, 2 * Scale}
Multipliers == {0 - Scale, 0, Scale}

Arguments ==
    [initial_capital : Capitals,
     n_days : (0 - 1)..MaxDays,
     n_simulations : (0 - 1)..MaxSims,
     volatility_multiplier : Multipliers]

\* states the random source can be seeded to before a simulate() call
Seeds == {0, 1}

NoOutput == [header |-> <<>>, stats |-> <<>>]

Init ==
    /\ df \in Datasets
    /\ df0 = df
    /\ args \in Arguments
    /\ self = NoInstance
    /\ call = "none"
    /\ raised = NoError
    /\ returned = None
    /\ printed = NoOutput
    /\ trail = <<>>

-----------------------------------------------------------------------------
(* MonteCarloGBMSimulator.__init__ *)

\* df["pnl_pct"] = df["close"].pct_change(): item assignment on the caller's object
SetColumn(d, name, s) == [c \in DOMAIN d \cup {name} |-> IF c = name THEN s ELSE d[c]]

Constructor ==
    /\ call = "none"
    /\ call' = "__init__"
    /\ IF "pnl_pct" \notin DOMAIN df /\ "close" \notin DOMAIN df
       THEN /\ raised' = "ValueError"
            /\ UNCHANGED <<df, self>>
       ELSE LET d == IF "pnl_pct" \notin DOMAIN df
                     THEN SetColumn(df, "pnl_pct", pct_change(df["close"]))
                     ELSE df
                r == dropna(d["pnl_pct"])
            IN  /\ df' = d
                /\ self' = [exists |-> TRUE,
                            returns |-> r,
                            mu |-> mean(r),
                            sigma |-> FMul(std(r), args.volatility_multiplier),
                            initial_capital |-> args.initial_capital,
                            n_days |-> args.n_days,
                            n_simulations |-> args.n_simulations,
                            simulated_paths |-> None]
                /\ raised' = NoError
    /\ UNCHANGED <<df0, args, returned, printed, trail>>

-----------------------------------------------------------------------------
(* MonteCarloGBMSimulator.simulate *)

dt == Scale
Half == Scale \div 2

\* The standard-normal stream of the random source seeded with s: its k-th variate
DrawVals == <<0 - Scale, Scale, 0>>
Variate(s, k) == DrawVals[((s + k) % Len(DrawVals)) + 1]

\* Mutant of randn: the two dimensions swapped
randn_transposed(s, rows, cols) ==
    [rows |-> cols, cols |-> rows,
     data |-> [t \in 1..cols |-> [n \in 1..rows |-> Variate(s, (t - 1) * rows + (n - 1))]]]

\* np.random.randn(rows, cols): row-major fill from the stream; the caller checks
\* the dimensions are not negative before using it
randn(s, rows, cols) ==
    [rows |-> rows, cols |-> cols,
     data |-> [t \in 1..rows |-> [n \in 1..cols |-> Variate(s, (t - 1) * cols + (n - 1))]]]

\* np.cumsum(a, axis=0): prefix sums down each column
RECURSIVE ColumnPrefix(_, _, _)
ColumnPrefix(a, t, n) ==
    IF t = 1 THEN a.data[1][n]
    ELSE FAdd(ColumnPrefix(a, t - 1, n), a.data[t][n])

\* Mutant of cumsum: prefix sums along each row (axis=1)
cumsum_axis1(a) ==
    [rows |-> a.rows, cols |-> a.cols,
     data |-> [t \in 1..a.rows |-> [n \in 1..a.cols |-> SumSeq(SubSeq(a.data[t], 1, n))]]]

cumsum(a) ==
    [rows |-> a.rows, cols |-> a.cols,
     data |-> [t \in 1..a.rows |-> [n \in 1..a.cols |-> ColumnPrefix(a, t, n)]]]

drift(obj) == FMul(FSub(obj.mu, FMul(Half, FMul(obj.sigma, obj.sigma))), dt)

\* sigma * z * sqrt(dt), element-wise
shock(obj, z) ==
    LET root == FSqrt(dt)
    IN  [rows |-> z.rows, cols |-> z.cols,
         data |-> [t \in 1..z.rows |->
                      [n \in 1..z.cols |-> FMul(FMul(obj.sigma, z.data[t][n]), root)]]]

\* drift + shock, the scalar broadcast over the array
log_returns(obj, z) ==
    LET d == drift(obj)
        sh == shock(obj, z)
    IN  [rows |-> sh.rows, cols |-> sh.cols,
         data |-> [t \in 1..sh.rows |-> [n \in 1..sh.cols |-> FAdd(d, sh.data[t][n])]]]

cumulative_returns(obj, z) == cumsum(log_returns(obj, z))

\* Mutant of price_paths: each path resumes from the final value stored by the previous run
price_paths_resumed(obj, z) ==
    LET cum == cumulative_returns(obj, z)
        Start(n) == IF obj.simulated_paths = None \/ obj.simulated_paths.rows = 0
                    THEN obj.initial_capital
                    ELSE obj.simulated_paths.data[obj.simulated_paths.rows][n]
    IN  [rows |-> cum.rows, cols |-> cum.cols,
         data |-> [t \in 1..cum.rows |->
                      [n \in 1..cum.cols |-> FMul(Start(n), FExp(cum.data[t][n]))]]]

\* initial_capital * exp(cumulative_returns), element-wise
price_paths(obj, z) ==
    LET cum == cumulative_returns(obj, z)
    IN  [rows |-> cum.rows, cols |-> cum.cols,
         data |-> [t \in 1..cum.rows |->
                      [n \in 1..cum.cols |-> FMul(obj.initial_capital, FExp(cum.data[t][n]))]]]

\* Mutant of simulate: the result is stored only while nothing is stored yet
simulate_keep_first ==
    /\ self.exists
    /\ call' = "simulate"
    /\ \E s \in Seeds :
        /\ trail' = IF trail = <<>> THEN <<s>> ELSE <<trail[Len(trail)], s>>
        /\ IF self.n_days < 0 \/ self.n_simulations < 0
           THEN /\ raised' = "ValueError"
                /\ UNCHANGED <<self, returned>>
           ELSE LET paths == price_paths(self, randn(s, self.n_days, self.n_simulations))
                IN  /\ self' = IF self.simulated_paths = None
                                THEN [self EXCEPT !.simulated_paths = paths]
                                ELSE self
                    /\ returned' = paths
                    /\ raised' = NoError
    /\ printed' = NoOutput
    /\ UNCHANGED <<df, df0, args>>

simulate ==
    /\ self.exists
    /\ call' = "simulate"
    /\ \E s \in Seeds :
        /\ trail' = IF trail = <<>> THEN <<s>> ELSE <<trail[Len(trail)], s>>
        /\ IF self.n_days < 0 \/ self.n_simulations < 0
           THEN \* randn: negative dimensions are not allowed
                /\ raised' = "ValueError"
                /\ UNCHANGED <<self, returned>>
           ELSE LET paths == price_paths(self, randn(s, self.n_days, self.n_simulations))
                IN  /\ self' = [self EXCEPT !.simulated_paths = paths]
                    /\ returned' = paths
                    /\ raised' = NoError
    /\ printed' = NoOutput
    /\ UNCHANGED <<df, df0, args>>

-----------------------------------------------------------------------------
(* MonteCarloGBMSimulator.plot *)

plot ==
    /\ self.exists
    /\ call' = "plot"
    /\ raised' = IF self.simulated_paths = None THEN "ValueError" ELSE NoError
    /\ printed' = NoOutput
    /\ UNCHANGED <<df, df0, args, self, returned, trail>>

-----------------------------------------------------------------------------
(* MonteCarloGBMSimulator.summary *)

RECURSIVE Insert(_, _)
Insert(x, s) ==
    IF s = <<>> THEN <<x>>
    ELSE IF x <= Head(s) THEN <<x>> \o s
         ELSE <<Head(s)>> \o Insert(x, Tail(s))

RECURSIVE Sorted(_)
Sorted(s) == IF s = <<>> THEN <<>> ELSE Insert(Head(s), Sorted(Tail(s)))

\* ndarray.min(), ndarray.max(): NaN if any entry is NaN
ArrayMin(v) == IF HasNaN(v) THEN NaN ELSE Sorted(v)[1]
ArrayMax(v) == IF HasNaN(v) THEN NaN ELSE Sorted(v)[Len(v)]

\* ndarray.mean()
ArrayMean(v) == IF HasNaN(v) THEN NaN ELSE SumSeq(v) \div Len(v)

\* ndarray.std(): population standard deviation (ddof = 0)
ArrayStd(v) ==
    IF HasNaN(v) THEN NaN
    ELSE FSqrt(SumSeq(SquaredDeviations(v, ArrayMean(v))) \div Len(v))

\* np.percentile(v, q): linear interpolation at position q/100 * (len - 1)
percentile(v, q) ==
    IF HasNaN(v) THEN NaN
    ELSE LET srt == Sorted(v)
             pos == q * (Len(v) - 1)
             lo == pos \div 100
             hi == IF lo + 1 < Len(v) THEN lo + 1 ELSE lo
         IN  srt[lo + 1] + ((srt[hi + 1] - srt[lo + 1]) * (pos % 100)) \div 100

\* simulated_paths[-1]
final_vals(paths) == paths.data[paths.rows]

Statistics(v) ==
    <<ArrayMin(v), ArrayMax(v), ArrayMean(v), ArrayStd(v), percentile(v, 5), percentile(v, 80)>>

\* Mutant of summary: the None check is missing, so None is indexed
summary_unguarded ==
    /\ self.exists
    /\ call' = "summary"
    /\ LET header == <<self.initial_capital, self.n_days, self.n_simulations>>
       IN  IF self.simulated_paths = None
           THEN /\ raised' = "TypeError"
                /\ printed' = [header |-> header, stats |-> <<>>]
           ELSE IF self.simulated_paths.rows = 0
           THEN /\ raised' = "IndexError"
                /\ printed' = [header |-> header, stats |-> <<>>]
           ELSE IF self.simulated_paths.cols = 0
           THEN /\ raised' = "ValueError"
                /\ printed' = [header |-> header, stats |-> <<>>]
           ELSE /\ raised' = NoError
                /\ printed' = [header |-> header,
                               stats |-> Statistics(final_vals(self.simulated_paths))]
    /\ UNCHANGED <<df, df0, args, self, returned, trail>>

\* Mutant of summary: the stored matrix is released once it has been summarised
summary_consuming ==
    /\ self.exists
    /\ call' = "summary"
    /\ LET header == <<self.initial_capital, self.n_days, self.n_simulations>>
       IN  IF self.simulated_paths = None
           THEN /\ raised' = "ValueError"
                /\ printed' = [header |-> header, stats |-> <<>>]
                /\ UNCHANGED self
           ELSE IF self.simulated_paths.rows = 0
           THEN /\ raised' = "IndexError"
                /\ printed' = [header |-> header, stats |-> <<>>]
                /\ UNCHANGED self
           ELSE IF self.simulated_paths.cols = 0
           THEN /\ raised' = "ValueError"
                /\ printed' = [header |-> header, stats |-> <<>>]
                /\ UNCHANGED self
           ELSE /\ raised' = NoError
                /\ printed' = [header |-> header,
                               stats |-> Statistics(final_vals(self.simulated_paths))]
                /\ self' = [self EXCEPT !.simulated_paths = None]
    /\ UNCHANGED <<df, df0, args, returned, trail>>

summary ==
    /\ self.exists
    /\ call' = "summary"
    /\ LET header == <<self.initial_capital, self.n_days, self.n_simulations>>
       IN  IF self.simulated_paths = None
           THEN /\ raised' = "ValueError"
                /\ printed' = [header |-> header, stats |-> <<>>]
           ELSE IF self.simulated_paths.rows = 0
           THEN \* index -1 is out of bounds for axis 0 with size 0
                /\ raised' = "IndexError"
                /\ printed' = [header |-> header, stats |-> <<>>]
           ELSE IF self.simulated_paths.cols = 0
           THEN \* zero-size array to reduction operation minimum
                /\ raised' = "ValueError"
                /\ printed' = [header |-> header, stats |-> <<>>]
           ELSE /\ raised' = NoError
                /\ printed' = [header |-> header,
                               stats |-> Statistics(final_vals(self.simulated_paths))]
    /\ UNCHANGED <<df, df0, args, self, returned, trail>>

-----------------------------------------------------------------------------

Next ==
    \/ Constructor
    \/ simulate
    \/ plot
    \/ summary

Spec == Init /\ [][Next]_vars

-----------------------------------------------------------------------------
(* Properties *)

Simulated == self.exists /\ self.simulated_paths # None

\* C1: summary() on an instance on which simulate() was never called raises the
\* not-simulated error (ValueError), writes no statistics and leaves no stored matrix.
C1_SummaryBeforeSimulate ==
    (call = "summary" /\ trail = <<>>) =>
        /\ raised = "ValueError"
        /\ printed.stats = <<>>
        /\ self.simulated_paths = None

C1_Witness == call = "summary" /\ trail = <<>> /\ raised = "ValueError"

\* C2: a constructed instance starts with no stored matrix; a simulate() that returns
\* leaves one stored; once one is stored, one stays stored under every later call;
\* and mu, sigma, initial_capital, n_days, n_simulations keep their construction values.
C2_LifecycleMonotone ==
    /\ []((call = "__init__" /\ self.exists) => self.simulated_paths = None)
    /\ []((self.exists /\ call = "simulate" /\ raised = NoError) => Simulated)
    /\ [][Simulated => Simulated']_vars
    /\ [][self.exists =>
            /\ self'.exists
            /\ self'.mu = self.mu
            /\ self'.sigma = self.sigma
            /\ self'.initial_capital = args.initial_capital
            /\ self'.n_days = args.n_days
            /\ self'.n_simulations = args.n_simulations
            /\ args' = args]_vars
    /\ [](self.exists =>
            /\ self.initial_capital = args.initial_capital
            /\ self.n_days = args.n_days
            /\ self.n_simulations = args.n_simulations)

C2_Witness == Simulated /\ call = "summary" /\ raised = NoError /\ Len(trail) = 2

HasShape(a, rows, cols) ==
    /\ a.rows = rows
    /\ a.cols = cols
    /\ Len(a.data) = rows
    /\ \A t \in 1..rows : Len(a.data[t]) = cols

\* C3: with n_days >= 1 and n_simulations >= 1 every simulate() returns, and the matrix
\* it returns and stores has exactly n_days rows and n_simulations columns.
C3_PathMatrixShape ==
    (self.exists /\ call = "simulate" /\ self.n_days >= 1 /\ self.n_simulations >= 1) =>
        /\ raised = NoError
        /\ self.simulated_paths = returned
        /\ HasShape(returned, self.n_days, self.n_simulations)

C3_Witness ==
    /\ self.exists /\ call = "simulate" /\ Len(trail) = 2
    /\ self.n_days = MaxDays /\ self.n_simulations = 1
    /\ HasShape(returned, MaxDays, 1)

FiniteInputs ==
    /\ self.mu # NaN
    /\ self.sigma # NaN

\* C4: simulate() with n_days < 1 or n_simulations < 1 raises and stores nothing;
\* with n_days >= 1, n_simulations >= 1 and finite inputs it does not raise.
C4_DegenerateShapeRejected ==
    (self.exists /\ call = "simulate") =>
        IF self.n_days < 1 \/ self.n_simulations < 1
        THEN raised # NoError /\ self.simulated_paths = None
        ELSE FiniteInputs => raised = NoError

InvalidConfiguration ==
    \/ args.n_days <= 0
    \/ args.n_simulations <= 0
    \/ args.initial_capital <= 0
    \/ args.volatility_multiplier < 0

\* C5: the constructor call raises on a non-positive n_days, n_simulations or
\* initial_capital or a negative volatility_multiplier, so no such instance exists.
C5_InvalidConfigurationRejected ==
    (call # "none" /\ InvalidConfiguration) => (raised # NoError /\ ~self.exists)

\* C6: the constructor raises when the return series is empty after dropna(), which
\* includes a close-only dataset with fewer than 2 prices; no instance has a mu or
\* sigma computed from an empty series.
C6_EmptySeriesRejected ==
    /\ self.exists => self.returns # <<>>
    /\ (call = "__init__" /\ DOMAIN df0 = {"close"} /\ Len(df0["close"]) < 2) =>
            (raised # NoError /\ ~self.exists)

\* C7: after the constructor has run, the caller's dataset has the columns and
\* values it had before the call.
C7_CalibrationLeavesDatasetAlone == (call # "none") => df = df0

\* C8: a simulate() that runs under the same seed as the simulate() before it, on the
\* same instance, returns the same matrix, whatever was stored in between.
C8_SeededRunsRepeat ==
    [][(call' = "simulate" /\ raised' = NoError /\ trail # <<>>
        /\ trail'[Len(trail')] = trail[Len(trail)])
       => returned' = returned]_vars

C8_Witness ==
    /\ self.exists /\ call = "simulate" /\ raised = NoError
    /\ Len(trail) = 2 /\ trail[1] = trail[2]
    /\ self.sigma # NaN /\ self.sigma > 0 /\ self.initial_capital > 0
    /\ HasShape(returned, MaxDays, MaxSims)
    /\ returned.data[1][1] # returned.data[1][2]

\* C9: with sigma = 0, the cumulative log-return of the cell at time step t (counted
\* from 1) of every path is mu * t, its value is initial_capital * exp(mu * t), and
\* all columns of the matrix are equal.
C9_ZeroVolatilityDeterministic ==
    (Simulated /\ self.sigma = 0) =>
        LET paths == self.simulated_paths
            cum == cumulative_returns(self, randn(trail[Len(trail)], self.n_days, self.n_simulations))
        IN  \A t \in 1..paths.rows : \A n \in 1..paths.cols :
                /\ cum.data[t][n] = self.mu * t
                /\ paths.data[t][n] = FMul(self.initial_capital, FExp(self.mu * t))
                /\ paths.data[t][n] = paths.data[t][1]

C9_Witness ==
    /\ Simulated /\ self.sigma = 0 /\ self.mu > 0 /\ self.initial_capital > 0
    /\ args.volatility_multiplier # 0
    /\ HasShape(self.simulated_paths, MaxDays, MaxSims)
    /\ self.simulated_paths.data[MaxDays][1] # self.simulated_paths.data[1][1]

\* C10: the matrix stored on the instance is the one the most recent simulate()
\* returned, and a summary() that returns wrote the statistics of its last row.
C10_SingleSlot ==
    /\ (self.exists /\ returned # None) => self.simulated_paths = returned
    /\ (call = "summary" /\ raised = NoError) =>
            printed.stats = Statistics(returned.data[returned.rows])

C10_Witness ==
    /\ call = "summary" /\ raised = NoError
    /\ Len(trail) = 2 /\ trail[1] # trail[2]
    /\ HasShape(returned, MaxDays, MaxSims)
    /\ returned.data[1] # returned.data[MaxDays]
    /\ printed.stats[1] # printed.stats[2]
====
